---- MODULE Spec2Model ----
(***************************************************************************)
(* Model of the two job controllers of the pdf2data front end:             *)
(*   - ExtractPage (src/frontend/src/pages/ExtractPage.tsx): the streamed  *)
(*     extraction job, its frame reassembly and record classification;     *)
(*   - ParseExecutionPage (src/unnamed/part_002): the blocking parse job   *)
(*     with its deadline timer and the store read that follows it.         *)
(* Text is a sequence of one-character strings.  A record payload is       *)
(* written with a one-letter body standing for the JSON object the service *)
(* sends: {l1} is {"type":"log","message":"1"}, {s} a success object with  *)
(* its data, {e1} an error object, {u} an object of another type, {} the   *)
(* empty object; any other body is text JSON.parse rejects.  Timestamps    *)
(* and the glyphs that decorate log lines are left out of log entries.     *)
(***************************************************************************)
EXTENDS Integers, Sequences, FiniteSets, TLC

VARIABLES
    \* ---- ExtractPage ----
    fileId,             \* searchParams.get("file_id"); "" stands for null
    stream,             \* the body text the extraction service answers with
    chunkEnds,          \* the positions of the text at which the transport may end a chunk
    mounted,            \* the component is mounted (state setters act)
    loading,            \* useState loading
    error,              \* useState error ("" stands for null)
    logs,               \* useState logs
    isResetRef,         \* isResetRef.current
    abortControllerRef, \* abortControllerRef.current: 0 (null) or the job that made it
    job,                \* per handleExtract run that passed the guard: its continuation
    redirect500,        \* pending 500 ms success timers (line 190)
    redirect1000,       \* pending 1000 ms navigation timers (line 194)
    navCount,           \* calls of navigate("/parse?...")
    startCalls,         \* invocations of handleExtract
    extractRequests,    \* fetch calls to the extraction service
    \* ---- ParseExecutionPage ----
    pFileId,            \* searchParams.get("file_id"); "" stands for null
    parser,             \* searchParams.get("parser"); "" stands for null
    prompt,             \* searchParams.get("prompt")
    jsonSchema,         \* searchParams.get("json_schema")
    pMounted,           \* the component is mounted
    pLoading,           \* useState loading
    pError,             \* useState error
    pSuccess,           \* useState success
    pLogs,              \* useState logs
    timeoutId,          \* useState timeoutId (0 stands for null)
    pAbortControllerRef,\* abortControllerRef.current: 0 (null) or 1
    initTimer,          \* the mount effect's 500 ms timer is pending
    request,            \* the parse request: none, inflight, aborted, settled
    response,           \* what the parse service answered, once it has
    deadline,           \* the deadline timer is pending
    stored,             \* the structured output the document store holds for this document
    budget,             \* the delay the deadline timer was set with, in ms (0: no timer)
    storeRead,          \* checkParsingStatus awaits its read of the document store
    pRedirect500,       \* pending 500 ms success timers
    pRedirect1000,      \* pending 1000 ms navigation timers
    pNavCount,          \* calls of navigate("/preview/...")
    execCalls,          \* invocations of executeParsing
    parseRequests,      \* fetch calls to the parse service
    storeReads,         \* fetch calls to the document store by checkParsingStatus
    hist                \* the events of the parse job, in order

xvars == <<fileId, stream, chunkEnds, mounted, loading, error, logs, isResetRef,
           abortControllerRef, job, redirect500, redirect1000, navCount,
           startCalls, extractRequests>>

pvars == <<pFileId, parser, prompt, jsonSchema, stored, budget, pMounted, pLoading, pError,
           pSuccess, pLogs, timeoutId, pAbortControllerRef, initTimer, request,
           response, deadline, storeRead, pRedirect500, pRedirect1000, pNavCount,
           execCalls, parseRequests, storeReads, hist>>

vars == <<xvars, pvars>>

\* ------------------------------------------------------------------ bounds
MaxRecords == 2      \* records per stream
MaxStartCalls == 2   \* invocations of handleExtract
MaxExecCalls == 2    \* invocations of executeParsing

\* ------------------------------------------------------------------ text
NL == "\n"
Prefix == <<"d", "a", "t", "a", ":", " ">>
PrefixLen == 6

IsSpace(c) == c \in {" ", "\t", "\r", NL}

RECURSIVE SplitFrom(_, _)
SplitFrom(text, cur) ==
    IF text = <<>> THEN <<cur>>
    ELSE IF Head(text) = NL THEN <<cur>> \o SplitFrom(Tail(text), <<>>)
    ELSE SplitFrom(Tail(text), Append(cur, Head(text)))

\* String.prototype.split('\n')
Split(text) == SplitFrom(text, <<>>)

StartsWith(s, p) == Len(s) >= Len(p) /\ SubSeq(s, 1, Len(p)) = p
EndsWith(s, p) == Len(s) >= Len(p) /\ SubSeq(s, Len(s) - Len(p) + 1, Len(s)) = p
Slice(s, n) == SubSeq(s, n + 1, Len(s))

RECURSIVE TrimLeft(_)
TrimLeft(s) == IF s # <<>> /\ IsSpace(Head(s)) THEN TrimLeft(Tail(s)) ELSE s
RECURSIVE TrimRight(_)
TrimRight(s) ==
    IF s # <<>> /\ IsSpace(s[Len(s)]) THEN TrimRight(SubSeq(s, 1, Len(s) - 1)) ELSE s
Trim(s) == TrimRight(TrimLeft(s))

TypeLetters == {"l", "s", "e", "u"}
MessageLetters == {"1", "2"}
TypeOf(c) == CASE c = "l" -> "log" [] c = "s" -> "success" [] c = "e" -> "error"
               [] OTHER -> "other"

\* JSON.parse on a payload that starts with '{' and ends with '}'.
JSONparse(js) ==
    LET body == SubSeq(js, 2, Len(js) - 1) IN
    IF body = <<>> THEN [ok |-> TRUE, type |-> "undefined", message |-> ""]
    ELSE IF /\ body[1] \in TypeLetters
            /\ Len(body) <= 2
            /\ (Len(body) = 2 => body[2] \in MessageLetters)
         THEN [ok |-> TRUE, type |-> TypeOf(body[1]),
               message |-> IF Len(body) = 2 THEN body[2] ELSE ""]
         ELSE [ok |-> FALSE, type |-> "", message |-> ""]

\* ------------------------------------------------------------------ log
Entry(cmd, text, arg, n) == [cmd |-> cmd, text |-> text, arg |-> arg, n |-> n]
Plain(text) == Entry(FALSE, text, "", 0)

\* addLog: nothing is appended once the terminal has been reset.
addLogAlways(reset, lg, e) == Append(lg, e)
addLogFirst(reset, lg, e) == IF reset THEN lg ELSE <<e>> \o lg
addLog(reset, lg, e) == IF reset THEN lg ELSE Append(lg, e)

ExtractionFailed == "Extraction failed. Please try again."

\* ------------------------------------------------------------------ classifier
\* The state one chunk's records act on.
Acc(lg, er, r5, ev, th) ==
    [logs |-> lg, error |-> er, redirect500 |-> r5, events |-> ev, thrown |-> th]

OnLog(st, d, reset) ==
    [st EXCEPT !.logs = addLog(reset, @, Entry(FALSE, "log", d.message, 0)),
               !.events = Append(@, <<"Log", d.message>>)]

OnSuccess(st, d, reset) ==
    LET l1 == addLog(reset, st.logs, Plain("Extraction completed successfully!"))
        l2 == addLog(reset, l1, Plain("Processed pages"))
        l3 == addLog(reset, l2, Plain("Method used"))
        l4 == addLog(reset, l3, Plain("Total characters"))
        l5 == addLog(reset, l4, Plain("Ready for parsing stage"))
    IN [st EXCEPT !.logs = l5,
                  !.redirect500 = @ + 1,
                  !.events = Append(@, <<"Success", "">>)]

OnError(st, d, reset) ==
    LET l1 == addLog(reset, st.logs, Entry(FALSE, "ERROR: ", d.message, 0))
        l2 == addLog(reset, l1, Plain("Process terminated with exit code 1"))
    IN [st EXCEPT !.logs = l2,
                  !.error = ExtractionFailed,
                  !.events = Append(@, <<"Error", d.message>>)]

\* The inner catch: one warning that names the length of the line.
OnParseFailureThrows(st, line, reset) == [st EXCEPT !.thrown = TRUE]
OnParseFailure(st, line, reset) ==
    [st EXCEPT !.logs = addLog(reset, @,
        Entry(FALSE, "Warning: Received malformed data", "", Len(line)))]

DelimitersOk(js) == StartsWith(js, <<"{">>) /\ EndsWith(js, <<"}">>)

\* line.startsWith('data: ') (line 167)
HasRecordPrefixAlways(line) == TRUE
HasRecordPrefix(line) == StartsWith(line, Prefix)

\* The body of the for loop over the complete lines of a chunk.
ProcessLine(line, st, reset) ==
    IF ~HasRecordPrefix(line) THEN st
    ELSE LET js == Trim(Slice(line, PrefixLen)) IN
         IF js = <<>> THEN st
         ELSE IF ~DelimitersOk(js) THEN st
         ELSE LET d == JSONparse(js) IN
              IF ~d.ok THEN OnParseFailure(st, line, reset)
              ELSE IF d.type = "log" THEN OnLog(st, d, reset)
              ELSE IF d.type = "success" THEN OnSuccess(st, d, reset)
              ELSE IF d.type = "error" THEN OnError(st, d, reset)
              ELSE st

RECURSIVE ProcessLines(_, _, _)
ProcessLines(lines, st, reset) ==
    IF lines = <<>> \/ st.thrown THEN st
    ELSE ProcessLines(Tail(lines), ProcessLine(Head(lines), st, reset), reset)

\* lines.pop() || '': the last element of the split is the new tail.
RetainTailDropped(parts) == <<>>
RetainTail(parts) == parts[Len(parts)]

\* One turn of the read loop: buffer += chunk; split; keep the tail; process.
ProcessChunk(buffer, chunk, st, reset) ==
    LET parts == Split(buffer \o chunk)
        lines == SubSeq(parts, 1, Len(parts) - 1)
    IN [st |-> ProcessLines(lines, st, reset), buffer |-> RetainTail(parts)]


\* ------------------------------------------------------------------ streams
Record(payload) == Prefix \o payload
RecLog1 == Record(<<"{", "l", "1", "}">>)
RecLog2 == Record(<<"{", "l", "2", "}">>)
RecSuccess == Record(<<"{", "s", "}">>)
RecError == Record(<<"{", "e", "1", "}">>)
RecBadDelim == Record(<<"l", "1", "}">>)      \* payload without its opening brace
RecUnparseable == Record(<<"{", "!", "}">>)   \* well delimited, rejected by JSON.parse
RecComment == <<":">>                         \* a line without the record prefix
RecUnknown == Record(<<"{", "u", "}">>)       \* an object of a type the loop does not know
\* another field of the event stream, as long as the prefix, with a payload
RecField == <<"e", "v", "e", "n", "t", ":", "{", "l", "1", "}">>

Records == {RecLog1, RecLog2, RecSuccess, RecError, RecBadDelim, RecUnparseable,
            RecComment, RecUnknown, RecField}

\* The records of a service that sends nothing but well-formed log, success
\* and error records.
WellFormedRecords == {RecLog1, RecSuccess, RecError}

RECURSIVE StreamsUpTo(_, _)
StreamsUpTo(recs, n) ==
    IF n = 0 THEN {<<>>}
    ELSE LET S == StreamsUpTo(recs, n - 1)
         IN S \cup {s \o r \o <<NL>> : s \in S, r \in recs}

Streams == StreamsUpTo(Records, MaxRecords)
WellFormedStreams == StreamsUpTo(WellFormedRecords, MaxRecords)

\* Streams the service ends without the newline of the last record.
UnterminatedStreams ==
    {s \o r : s \in StreamsUpTo(Records, MaxRecords - 1), r \in WellFormedRecords}

AllPositions(text) == 1..Len(text)
LineEnds(text) == {i \in 1..Len(text) : text[i] = NL}

\* ------------------------------------------------------------------ ExtractPage
IdleJob == [id |-> 0, pc |-> "idle", opened |-> FALSE, pos |-> 0, buffer |-> <<>>,
            aborted |-> FALSE, buffered |-> FALSE, events |-> <<>>, cut |-> FALSE,
            outcome |-> "none", prev |-> "none", answer |-> "none"]

\* A state setter of an unmounted component changes nothing.
SetState(new, old) == IF mounted THEN new ELSE old

XInitState ==
    /\ fileId \in {"", "f1"}
    /\ mounted = TRUE
    /\ loading = FALSE
    /\ error = ""
    /\ logs = <<>>
    /\ isResetRef = FALSE
    /\ abortControllerRef = 0
    /\ job = IdleJob
    /\ redirect500 = 0
    /\ redirect1000 = 0
    /\ navCount = 0
    /\ startCalls = 0
    /\ extractRequests = 0

\* The job life cycle: well-formed streams, delivered record by record.
XInit ==
    /\ stream \in WellFormedStreams
    /\ chunkEnds = LineEnds(stream)
    /\ XInitState

\* Framing: every stream, cut anywhere.
FInit ==
    /\ stream \in Streams \cup UnterminatedStreams
    /\ chunkEnds = AllPositions(stream)
    /\ XInitState

\* A rejection by abort is settled before the event loop runs its next task:
\* while an aborted job still has its catch block to run, no handler, timer
\* or other continuation runs.
AbortPending == job.aborted /\ job.pc \in {"fetch", "read"}

\* handleExtract up to the await of fetch (lines 110-142).
HandleExtractGuardNoLoading == fileId = ""
HandleExtractGuard == fileId = "" \/ loading

HandleExtract ==
    /\ ~AbortPending
    /\ mounted
    /\ startCalls < MaxStartCalls
    /\ startCalls' = startCalls + 1
    /\ UNCHANGED pvars
    /\ IF HandleExtractGuard
       THEN UNCHANGED <<fileId, stream, chunkEnds, mounted, loading, error, logs, isResetRef,
                        abortControllerRef, job, redirect500, redirect1000,
                        navCount, extractRequests>>
       ELSE /\ isResetRef' = FALSE
            /\ loading' = TRUE
            /\ error' = ""
            /\ logs' = <<Plain("PDF2Data Extraction Terminal v1.0.0"),
                         Plain("Connecting to extraction service..."),
                         Entry(TRUE, "extract", fileId, 0)>>
            /\ abortControllerRef' = job.id + 1
            /\ job' = [IdleJob EXCEPT !.id = job.id + 1, !.pc = "fetch",
                                       !.prev = job.outcome]
            /\ extractRequests' = extractRequests + 1
            /\ UNCHANGED <<fileId, stream, chunkEnds, mounted, redirect500, redirect1000, navCount>>

\* finally (lines 230-233), with the job's outcome recorded.
FinallyOf(jb, outcome) ==
    /\ loading' = SetState(FALSE, loading)
    /\ abortControllerRef' = 0
    /\ job' = [jb EXCEPT !.pc = "done", !.outcome = outcome]

Finally(outcome) == FinallyOf(job, outcome)

\* catch of anything but an AbortError (lines 224-229), then finally.
CatchFailureOf(jb, lg) ==
    /\ logs' = SetState(
         addLog(isResetRef,
                addLog(isResetRef, lg,
                       Plain("ERROR: Connection to extraction service failed")),
                Plain("Process terminated with exit code 1")),
         logs)
    /\ error' = SetState(ExtractionFailed, error)
    /\ FinallyOf(jb, "failed")

CatchFailure(lg) == CatchFailureOf(job, lg)

\* response.ok (line 144)
ResponseOkayAlways(r) == TRUE
ResponseOkay(r) == r = "ok"

\* The fetch settles without an abort: a response, or a rejection (lines 138-149).
FetchSettles ==
    /\ job.pc = "fetch"
    /\ ~job.aborted
    /\ \E r \in {"ok", "notok", "neterr"} :
         IF r # "neterr" /\ ResponseOkay(r)
         THEN /\ job' = [job EXCEPT !.pc = "read", !.opened = TRUE, !.answer = r]
              /\ UNCHANGED <<loading, error, logs, abortControllerRef>>
         ELSE CatchFailureOf([job EXCEPT !.answer = r], logs)
    /\ UNCHANGED pvars
    /\ UNCHANGED <<fileId, stream, chunkEnds, mounted, isResetRef, redirect500, redirect1000,
                   navCount, startCalls, extractRequests>>

\* reader.read() yields the next n characters (lines 155-211).  After an
\* abort the read may still hand over one chunk that was already buffered.
ReadChunk ==
    /\ job.pc = "read"
    /\ job.pos < Len(stream)
    /\ job.aborted => ~job.buffered
    /\ \E n \in {m \in 1..(Len(stream) - job.pos) : job.pos + m \in chunkEnds} :
       \E r \in {ProcessChunk(job.buffer, SubSeq(stream, job.pos + 1, job.pos + n),
                                Acc(logs, error, redirect500, job.events, FALSE),
                                isResetRef)} :
            IF r.st.thrown
            THEN /\ CatchFailure(r.st.logs)
                 /\ redirect500' = r.st.redirect500
            ELSE /\ logs' = SetState(r.st.logs, logs)
                 /\ error' = SetState(r.st.error, error)
                 /\ redirect500' = r.st.redirect500
                 /\ job' = [job EXCEPT !.pos = @ + n,
                                       !.buffer = r.buffer,
                                       !.events = r.st.events,
                                       !.buffered = job.aborted,
                                       !.cut = @ \/ (r.buffer # <<>>)]
                 /\ UNCHANGED <<loading, abortControllerRef>>
    /\ UNCHANGED pvars
    /\ UNCHANGED <<fileId, stream, chunkEnds, mounted, isResetRef, redirect1000, navCount,
                   startCalls, extractRequests>>

\* reader.read() reports done: the loop ends, the tail is only warned about
\* on the console (lines 157, 214-217), then finally.
\* The lines of the buffer that are classified when the channel closes: none,
\* the tail is only reported on the console (lines 214-217).
TailAtCloseForwarded(buffer) == IF Trim(buffer) # <<>> THEN <<buffer>> ELSE <<>>
TailAtClose(buffer) == <<>>

ReadDone ==
    /\ ~AbortPending
    /\ job.pc = "read"
    /\ job.pos = Len(stream)
    /\ ~job.aborted
    /\ \E st \in {ProcessLines(TailAtClose(job.buffer),
                               Acc(logs, error, redirect500, job.events, FALSE),
                               isResetRef)} :
         /\ logs' = SetState(st.logs, logs)
         /\ error' = SetState(st.error, error)
         /\ redirect500' = st.redirect500
         /\ loading' = SetState(FALSE, loading)
         /\ abortControllerRef' = 0
         /\ job' = [job EXCEPT !.pc = "done", !.outcome = "closed", !.events = st.events]
    /\ UNCHANGED pvars
    /\ UNCHANGED <<fileId, stream, chunkEnds, mounted, isResetRef,
                   redirect1000, navCount, startCalls, extractRequests>>

\* The pending fetch or read rejects with an AbortError (lines 220-223), then finally.
AbortCatch ==
    /\ job.pc \in {"fetch", "read"}
    /\ job.aborted
    /\ logs' = SetState(
         addLog(isResetRef,
                addLog(isResetRef, logs, Plain("Extraction cancelled by user")),
                Plain("Process terminated")),
         logs)
    /\ Finally("cancelled")
    /\ UNCHANGED pvars
    /\ UNCHANGED <<fileId, stream, chunkEnds, mounted, error, isResetRef, redirect500,
                   redirect1000, navCount, startCalls, extractRequests>>

\* AbortController.abort() on the controller the ref holds.
AbortNothing(jb, ref) == jb
Abort(jb, ref) == IF ref = jb.id /\ ref # 0 THEN [jb EXCEPT !.aborted = TRUE] ELSE jb

\* resetTerminal (lines 88-108).
ResetTerminal ==
    /\ ~AbortPending
    /\ mounted
    /\ isResetRef' = TRUE
    /\ job' = Abort(job, abortControllerRef)
    /\ abortControllerRef' = 0
    /\ loading' = FALSE
    /\ logs' = <<>>
    /\ error' = ""
    /\ UNCHANGED pvars
    /\ UNCHANGED <<fileId, stream, chunkEnds, mounted, redirect500, redirect1000, navCount,
                   startCalls, extractRequests>>

\* The 500 ms timer of a success record (lines 190-197).
Redirect500 ==
    /\ ~AbortPending
    /\ redirect500 > 0
    /\ redirect500' = redirect500 - 1
    /\ redirect1000' = redirect1000 + 1
    /\ logs' = SetState(
         addLog(isResetRef,
                addLog(isResetRef, logs,
                       Entry(TRUE, "cd ../parse && ./start_parser.sh", "", 0)),
                Plain("Redirecting to parser...")),
         logs)
    /\ UNCHANGED pvars
    /\ UNCHANGED <<fileId, stream, chunkEnds, mounted, loading, error, isResetRef,
                   abortControllerRef, job, navCount, startCalls, extractRequests>>

\* The unmount effect's cleanup (lines 59-68): abort, the ref is left as it is.
Teardown ==
    /\ mounted' = FALSE
    /\ job' = Abort(job, abortControllerRef)

\* The 1000 ms timer: navigate to the parse page, which unmounts this one.
Redirect1000 ==
    /\ ~AbortPending
    /\ redirect1000 > 0
    /\ redirect1000' = redirect1000 - 1
    /\ navCount' = navCount + 1
    /\ IF mounted THEN Teardown ELSE UNCHANGED <<mounted, job>>
    /\ UNCHANGED pvars
    /\ UNCHANGED <<fileId, stream, chunkEnds, loading, error, logs, isResetRef,
                   abortControllerRef, redirect500, startCalls, extractRequests>>

\* The page is left by other means.
Unmount ==
    /\ ~AbortPending
    /\ mounted
    /\ Teardown
    /\ UNCHANGED pvars
    /\ UNCHANGED <<fileId, stream, chunkEnds, loading, error, logs, isResetRef,
                   abortControllerRef, redirect500, redirect1000, navCount,
                   startCalls, extractRequests>>

XNext ==
    \/ HandleExtract
    \/ FetchSettles
    \/ ReadChunk
    \/ ReadDone
    \/ AbortCatch
    \/ ResetTerminal
    \/ Redirect500
    \/ Redirect1000
    \/ Unmount


\* handleExtract on the page as it was mounted: the first job.
FirstExtract ==
    /\ job.pc = "idle"
    /\ HandleExtract

\* The read loop alone: one job, no cancel, no timers, no teardown.
FNext ==
    \/ FirstExtract
    \/ FetchSettles
    \/ ReadChunk
    \/ ReadDone



\* ------------------------------------------------------------------ ParseExecutionPage
Msg(t, n) == [t |-> t, n |-> n]
NoError == Msg("", 0)
NoResponse == [kind |-> "none", status |-> 0, body |-> [kind |-> "empty", text |-> ""]]

\* executeParsing, checkParsingStatus and cleanup are the closures of the
\* first render (the mount effects keep them): the state they read is the
\* initial state, whatever has been set since.
ClosureLoading == TRUE
ClosureTimeoutId == 0

Parsers == {"", "AIParser", "DaybookParser", "InvoiceParser"}

\* timeoutDuration of executeParsing (lines 116-117)
TimeoutDuration(p) ==
    IF p = "AIParser" THEN 120000 ELSE IF p = "DaybookParser" THEN 90000 ELSE 30000

\* timeoutDuration of checkParsingStatus (lines 256-257)
CheckTimeoutDurationDefault(p) == 30000
CheckTimeoutDuration(p) ==
    IF p = "AIParser" THEN 120000 ELSE IF p = "DaybookParser" THEN 90000 ELSE 30000

ServerDetails == {"bad schema", "Invalid API key", "Invalid JSON output", "quota exceeded"}
Bodies == {[kind |-> "detail", text |-> d] : d \in ServerDetails}
          \cup {[kind |-> "json", text |-> "{}"],
                [kind |-> "text", text |-> "Internal Server Error"],
                [kind |-> "empty", text |-> ""]}
Statuses == {500, 422}

\* String.prototype.includes on the messages of the model.
Includes(m, w) ==
    <<m.t, w>> \in {<<"Invalid API key", "API key">>,
                    <<"Invalid JSON output", "JSON">>,
                    <<"quota exceeded", "quota">>}

\* The message of the Error thrown for a non-2xx response (lines 163-179).
ErrorMessageOf(status, body) ==
    IF body.kind = "detail" THEN Msg(body.text, 0)
    ELSE IF body.kind = "json" THEN Msg("Server error: %d", status)
    ELSE IF body.text # "" THEN Msg(body.text, 0)
    ELSE Msg("Server error: %d", status)

\* The message the catch block hands to setError (lines 220-237).
FailureMessage(m) ==
    IF parser = "AIParser"
    THEN IF Includes(m, "API key")
         THEN Msg("OpenAI API key error. Please check your OPENAI_API_KEY environment variable.", 0)
         ELSE IF Includes(m, "JSON")
         THEN Msg("AI response format error. Try simplifying your JSON schema or prompt.", 0)
         ELSE IF Includes(m, "quota")
         THEN Msg("OpenAI quota exceeded. Please check your API usage limits.", 0)
         ELSE IF prompt # "" \/ jsonSchema # ""
         THEN Msg("AI parsing failed with custom configuration. Try using default settings or simplify your prompt/schema.", 0)
         ELSE Msg("AI parsing failed. Please check your OpenAI API key and try again.", 0)
    ELSE Msg("Parsing failed. Please try again or select a different parser.", 0)

CancelledMessage == Msg("Parsing was cancelled.", 0)
MissingMessage == Msg("Missing required parameters", 0)
TimeoutMessage(p) ==
    Msg("Parsing timed out after %d seconds. The document may be too large or complex for this parser.",
        CheckTimeoutDuration(p) \div 1000)
TimeoutMessageOnError(p) ==
    Msg("Parsing timed out after %d seconds. The parser may be overloaded or there might be an issue with the document.",
        CheckTimeoutDuration(p) \div 1000)

PSet(new, old) == IF pMounted THEN new ELSE old

RECURSIVE AppendAll(_, _)
AppendAll(lg, es) == IF es = <<>> THEN lg ELSE AppendAll(Append(lg, Head(es)), Tail(es))

\* addLog, for each of the entries in turn.
PLog(es) == pLogs' = PSet(AppendAll(pLogs, es), pLogs)

PInit ==
    /\ pFileId \in {"", "f1"}
    /\ parser \in Parsers
    /\ prompt \in {"", "p"}
    /\ jsonSchema \in {"", "s"}
    /\ stored \in {"none", "earlier"}
    /\ pMounted = TRUE
    /\ pLoading = TRUE
    /\ pError = NoError
    /\ pSuccess = FALSE
    /\ pLogs = <<Plain("=== Parse Execution Page Loaded ==="),
                 Plain("Initializing parser execution environment...")>>
    /\ timeoutId = 0
    /\ pAbortControllerRef = 0
    /\ initTimer = TRUE
    /\ request = "none"
    /\ response = NoResponse
    /\ deadline = FALSE
    /\ budget = 0
    /\ storeRead = FALSE
    /\ pRedirect500 = 0
    /\ pRedirect1000 = 0
    /\ pNavCount = 0
    /\ execCalls = 0
    /\ parseRequests = 0
    /\ storeReads = 0
    /\ hist = <<>>

\* A rejection by abort is settled before the event loop runs its next task.
PAbortPending == request = "aborted"

\* AbortController.abort() on the controller the ref holds.
PAbortNothing(req, ref) == req
PAbort(req, ref) == IF ref # 0 /\ req = "inflight" THEN "aborted" ELSE req

\* The guard of executeParsing (line 94).
ExecuteParsingGuardDropped == FALSE
ExecuteParsingGuard == ClosureLoading /\ pAbortControllerRef # 0

CustomLogs ==
    (IF prompt # "" THEN <<Plain("Custom AI prompt provided")>> ELSE <<>>)
    \o (IF jsonSchema # "" THEN <<Plain("Custom JSON schema provided")>> ELSE <<>>)

\* !fileId || !parser (line 98)
MissingParametersIgnored == FALSE
MissingParameters == pFileId = "" \/ parser = ""

\* executeParsing up to the await of fetch (lines 92-155).
ExecuteParsing ==
    /\ execCalls' = execCalls + 1
    /\ IF ExecuteParsingGuard
       THEN /\ hist' = Append(hist, "reentry")
            /\ UNCHANGED <<pLoading, pError, pLogs, timeoutId, budget, pAbortControllerRef,
                           request, deadline, parseRequests>>
       ELSE IF MissingParameters
       THEN /\ PLog(<<Plain("ERROR: Missing required parameters")>>)
            /\ pError' = PSet(MissingMessage, pError)
            /\ pLoading' = PSet(FALSE, pLoading)
            /\ hist' = Append(hist, "missing")
            /\ UNCHANGED <<timeoutId, budget, pAbortControllerRef, request, deadline,
                           parseRequests>>
       ELSE /\ pError' = PSet(NoError, pError)
            /\ PLog(<<Plain("PDF2Data Parser Terminal v1.0.0"),
                      Plain("Initializing parsing environment..."),
                      Entry(TRUE, "parse", parser, 0),
                      Plain("Looking for extracted text file..."),
                      Plain("Preparing data for parsing...")>>
                    \o CustomLogs
                    \o <<Plain("Sending parsing request to server...")>>)
            /\ pAbortControllerRef' = 1
            /\ deadline' = TRUE
            /\ budget' = TimeoutDuration(parser)
            /\ timeoutId' = PSet(1, timeoutId)
            /\ request' = "inflight"
            /\ parseRequests' = parseRequests + 1
            /\ hist' = Append(hist, "start")
            /\ UNCHANGED pLoading
    /\ UNCHANGED <<pFileId, parser, prompt, jsonSchema, stored, pMounted, pSuccess,
                   response, storeRead, pRedirect500, pRedirect1000,
                   pNavCount, storeReads>>

\* The mount effect's timer fires (lines 331-333).
StartDelayElapsed ==
    /\ ~PAbortPending
    /\ initTimer
    /\ initTimer' = FALSE
    /\ ExecuteParsing
    /\ UNCHANGED xvars

\* A further call of executeParsing.  The mount effect is its only caller,
\* so a further call is followed only while the first is outstanding, the
\* case the guard of line 94 is written for.
ExecuteParsingAgain ==
    /\ ~PAbortPending
    /\ ~initTimer
    /\ pAbortControllerRef # 0
    /\ execCalls < MaxExecCalls
    /\ ExecuteParsing
    /\ UNCHANGED initTimer
    /\ UNCHANGED xvars

\* clearTimeout through the closure's timeoutId (lines 158-161, 206-209,
\* 244-247, 277-280, 49-52): the timer is cleared only if the closure saw an id.
ClearTimeout(d) == IF ClosureTimeoutId # 0 THEN FALSE ELSE d

\* finally (lines 241-248): the ref is cleared.
RefAfterFinallyKept == pAbortControllerRef
RefAfterFinally == 0

\* The success redirect (lines 195-202, 283-290) is scheduled.
ScheduleRedirect == pRedirect500' = pRedirect500 + 1

\* The parse service finishes the parse and stores its output under the
\* document's id, in place of what an earlier parse left there; the answer
\* to the request is still to come.
ServiceStores ==
    /\ ~PAbortPending
    /\ request = "inflight"
    /\ stored # "current"
    /\ stored' = "current"
    /\ UNCHANGED <<pFileId, parser, prompt, jsonSchema, budget, pMounted, pLoading, pError,
                   pSuccess, pLogs, timeoutId, pAbortControllerRef, initTimer, request,
                   response, deadline, storeRead, pRedirect500, pRedirect1000, pNavCount,
                   execCalls, parseRequests, storeReads, hist>>
    /\ UNCHANGED xvars

\* The parse service answers 2xx (lines 157-161, 182-202, 241-248), its
\* output stored ("Data saved to database").
ResponseOk ==
    /\ ~PAbortPending
    /\ request = "inflight"
    /\ stored = "current"
    /\ request' = "settled"
    /\ response' = [kind |-> "ok", status |-> 200, body |-> [kind |-> "json", text |-> "{}"]]
    /\ PLog(<<Plain("Parsing completed successfully!"),
              Entry(FALSE, "Parser used: ", parser, 0),
              Plain("Extraction method"),
              Plain("Data saved to database"),
              Plain("Output file"),
              Plain("Process completed!")>>)
    /\ pSuccess' = PSet(TRUE, pSuccess)
    /\ pLoading' = PSet(FALSE, pLoading)
    /\ ScheduleRedirect
    /\ pAbortControllerRef' = RefAfterFinally
    /\ deadline' = ClearTimeout(deadline)
    /\ hist' = Append(hist, "response_ok")
    /\ UNCHANGED <<pFileId, parser, prompt, jsonSchema, stored, budget, pMounted, pError, timeoutId,
                   initTimer, storeRead, pRedirect1000, pNavCount, execCalls,
                   parseRequests, storeReads>>
    /\ UNCHANGED xvars

\* catch of anything but an AbortError (lines 204-209, 215-240), then finally.
PCatchFailure(m) ==
    /\ PLog(<<Plain("ERROR: Parsing failed!"),
              Entry(FALSE, m.t, "", m.n),
              Plain("Process terminated with exit code 1")>>)
    /\ pError' = PSet(FailureMessage(m), pError)
    /\ pLoading' = PSet(FALSE, pLoading)
    /\ pAbortControllerRef' = RefAfterFinally
    /\ deadline' = ClearTimeout(deadline)

\* The parse service answers non-2xx (lines 163-180), caught at line 204.
ResponseError ==
    /\ ~PAbortPending
    /\ request = "inflight"
    /\ request' = "settled"
    /\ \E st \in Statuses, b \in Bodies :
         /\ response' = [kind |-> "error", status |-> st, body |-> b]
         /\ PCatchFailure(ErrorMessageOf(st, b))
    /\ hist' = Append(hist, "response_error")
    /\ UNCHANGED <<pFileId, parser, prompt, jsonSchema, stored, budget, pMounted, pSuccess, timeoutId,
                   initTimer, storeRead, pRedirect500, pRedirect1000, pNavCount,
                   execCalls, parseRequests, storeReads>>
    /\ UNCHANGED xvars

\* The fetch rejects for a transport failure, caught at line 204.
TransportFailure ==
    /\ ~PAbortPending
    /\ request = "inflight"
    /\ request' = "settled"
    /\ response' = [kind |-> "transport", status |-> 0, body |-> [kind |-> "empty", text |-> ""]]
    /\ PCatchFailure(Msg("Failed to fetch", 0))
    /\ hist' = Append(hist, "transport_error")
    /\ UNCHANGED <<pFileId, parser, prompt, jsonSchema, stored, budget, pMounted, pSuccess, timeoutId,
                   initTimer, storeRead, pRedirect500, pRedirect1000, pNavCount,
                   execCalls, parseRequests, storeReads>>
    /\ UNCHANGED xvars

\* The fetch rejects with an AbortError (lines 204-214, 240-248).
PAbortCatch ==
    /\ request = "aborted"
    /\ request' = "settled"
    /\ PLog(<<Plain("Parsing cancelled by user"), Plain("Process terminated")>>)
    /\ pError' = PSet(CancelledMessage, pError)
    /\ pLoading' = PSet(FALSE, pLoading)
    /\ pAbortControllerRef' = RefAfterFinally
    /\ deadline' = ClearTimeout(deadline)
    /\ hist' = Append(hist, "abort_catch")
    /\ UNCHANGED <<pFileId, parser, prompt, jsonSchema, stored, budget, pMounted, pSuccess, timeoutId,
                   initTimer, response, storeRead, pRedirect500, pRedirect1000,
                   pNavCount, execCalls, parseRequests, storeReads>>
    /\ UNCHANGED xvars

\* The timer's callback acts only with a controller in the ref (line 119).
TimerGuardDropped == TRUE
TimerGuardNever == FALSE
TimerGuard == pAbortControllerRef # 0

\* The deadline timer fires (lines 118-126) and, with a controller in the
\* ref, checkParsingStatus runs up to its fetch (lines 252-261).
DeadlineFires ==
    /\ ~PAbortPending
    /\ deadline
    /\ deadline' = FALSE
    /\ IF TimerGuard
       THEN /\ PLog(<<Plain("Request timed out, but parsing may still be running..."),
                      Plain("Checking if parsing completed successfully...")>>
                    \o (IF pFileId # "" THEN <<Plain("Checking parsing status...")>> ELSE <<>>))
            /\ storeRead' = (pFileId # "")
            /\ storeReads' = IF pFileId # "" THEN storeReads + 1 ELSE storeReads
            /\ hist' = Append(hist, "deadline")
       ELSE /\ hist' = Append(hist, "deadline_idle")
            /\ UNCHANGED <<pLogs, storeRead, storeReads>>
    /\ UNCHANGED <<pFileId, parser, prompt, jsonSchema, stored, budget, pMounted, pLoading, pError,
                   pSuccess, timeoutId, pAbortControllerRef, initTimer, request,
                   response, pRedirect500, pRedirect1000, pNavCount, execCalls,
                   parseRequests>>
    /\ UNCHANGED xvars

StoreTag(r) ==
    CASE r = "tables" -> "store_tables" [] r = "empty" -> "store_empty"
      [] r = "notok" -> "store_notok" [] OTHER -> "store_rejected"

\* data.tables of the record the store answers with: the output stored under
\* the document's id, whichever parse wrote it.
TablesOfCurrentOnly(st) == IF st = "current" THEN "tables" ELSE "empty"
TablesOf(st) == IF st = "none" THEN "empty" ELSE "tables"

\* data.tables && data.tables.length > 0 (line 267), on a 2xx answer (line 263).
FoundParsedDataNever(r) == FALSE
FoundParsedData(r) == r = "tables"

\* The read of the document store settles (lines 263-321): r is what it
\* brought: the stored tables on a 2xx answer, a non-2xx answer, a rejection.
StoreReadSettles ==
    /\ ~PAbortPending
    /\ storeRead
    /\ storeRead' = FALSE
    /\ \E r \in {TablesOf(stored), "notok", "rejected"} :
         /\ hist' = Append(hist, StoreTag(r))
         /\ IF FoundParsedData(r)
            THEN /\ PLog(<<Plain("Parsing completed successfully!"),
                           Plain("Found tables with parsed data"),
                           Plain("Data saved to database"),
                           Plain("Process completed!")>>)
                 /\ pSuccess' = PSet(TRUE, pSuccess)
                 /\ pLoading' = PSet(FALSE, pLoading)
                 /\ deadline' = ClearTimeout(deadline)
                 /\ ScheduleRedirect
                 /\ UNCHANGED <<pError, pAbortControllerRef, request>>
            ELSE /\ PLog(<<Plain(IF r = "rejected" THEN "Error checking parsing status"
                                  ELSE "Parsing did not complete successfully"),
                           Entry(FALSE, "Parser took longer than %d seconds", "",
                                 CheckTimeoutDuration(parser) \div 1000),
                           Plain("Process terminated due to timeout")>>)
                 /\ request' = PAbort(request, pAbortControllerRef)
                 /\ pAbortControllerRef' = 0
                 /\ pError' = PSet(IF r = "rejected" THEN TimeoutMessageOnError(parser)
                                   ELSE TimeoutMessage(parser), pError)
                 /\ pLoading' = PSet(FALSE, pLoading)
                 /\ UNCHANGED <<pSuccess, deadline, pRedirect500>>
    /\ UNCHANGED <<pFileId, parser, prompt, jsonSchema, stored, budget, pMounted, timeoutId, initTimer,
                   response, pRedirect1000, pNavCount, execCalls, parseRequests,
                   storeReads>>
    /\ UNCHANGED xvars

\* clearTimeout(initTimer) of the mount effect's cleanup (line 335): the id is
\* the effect's own constant, the timer is cleared.
InitTimerAfterCleanupKept == initTimer
InitTimerAfterCleanup == FALSE

\* cleanup (lines 44-53) and the mount effect's cleanup (line 335), on unmount.
PTeardown ==
    /\ pMounted' = FALSE
    /\ request' = PAbort(request, pAbortControllerRef)
    /\ pAbortControllerRef' = 0
    /\ deadline' = ClearTimeout(deadline)
    /\ initTimer' = InitTimerAfterCleanup

\* handleCancel (lines 338-351).
HandleCancel ==
    /\ ~PAbortPending
    /\ pMounted
    /\ IF pLoading /\ pAbortControllerRef # 0
       THEN /\ PLog(<<Plain("User requested cancellation...")>>)
            /\ request' = PAbort(request, pAbortControllerRef)
            /\ hist' = Append(hist, "cancel")
            /\ UNCHANGED <<pMounted, pAbortControllerRef, deadline, initTimer>>
       ELSE /\ PTeardown
            /\ hist' = Append(hist, "leave")
            /\ UNCHANGED pLogs
    /\ UNCHANGED <<pFileId, parser, prompt, jsonSchema, stored, budget, pLoading, pError, pSuccess,
                   timeoutId, response, storeRead, pRedirect500, pRedirect1000,
                   pNavCount, execCalls, parseRequests, storeReads>>
    /\ UNCHANGED xvars

\* The 500 ms timer of a success (lines 195-202, 283-290).
PRedirect500 ==
    /\ ~PAbortPending
    /\ pRedirect500 > 0
    /\ pRedirect500' = pRedirect500 - 1
    /\ pRedirect1000' = pRedirect1000 + 1
    /\ PLog(<<Entry(TRUE, "cd ../preview && ./open_results.sh", "", 0),
              Plain("Redirecting to results...")>>)
    /\ UNCHANGED <<pFileId, parser, prompt, jsonSchema, stored, budget, pMounted, pLoading, pError,
                   pSuccess, timeoutId, pAbortControllerRef, initTimer, request,
                   response, deadline, storeRead, pNavCount, execCalls,
                   parseRequests, storeReads, hist>>
    /\ UNCHANGED xvars

\* The 1000 ms timer: navigate to the preview, which unmounts this page.
PRedirect1000 ==
    /\ ~PAbortPending
    /\ pRedirect1000 > 0
    /\ pRedirect1000' = pRedirect1000 - 1
    /\ pNavCount' = pNavCount + 1
    /\ IF pMounted
       THEN /\ PTeardown
            /\ hist' = Append(hist, "unmount")
       ELSE UNCHANGED <<pMounted, request, pAbortControllerRef, deadline, initTimer, hist>>
    /\ UNCHANGED <<pFileId, parser, prompt, jsonSchema, stored, budget, pLoading, pError, pSuccess,
                   pLogs, timeoutId, response, storeRead, pRedirect500, execCalls,
                   parseRequests, storeReads>>
    /\ UNCHANGED xvars

\* The page is left by other means.
PUnmount ==
    /\ ~PAbortPending
    /\ pMounted
    /\ PTeardown
    /\ hist' = Append(hist, "unmount")
    /\ UNCHANGED <<pFileId, parser, prompt, jsonSchema, stored, budget, pLoading, pError, pSuccess,
                   pLogs, timeoutId, response, storeRead, pRedirect500, pRedirect1000,
                   pNavCount, execCalls, parseRequests, storeReads>>
    /\ UNCHANGED xvars

PNext ==
    \/ StartDelayElapsed
    \/ ServiceStores
    \/ ExecuteParsingAgain
    \/ ResponseOk
    \/ ResponseError
    \/ TransportFailure
    \/ PAbortCatch
    \/ DeadlineFires
    \/ StoreReadSettles
    \/ HandleCancel
    \/ PRedirect500
    \/ PRedirect1000
    \/ PUnmount

\* Each page is checked with the other one at rest.
PRest ==
    /\ PInit
    /\ pFileId = "" /\ parser = "" /\ prompt = "" /\ jsonSchema = "" /\ stored = "none"

XRest ==
    /\ XInit
    /\ fileId = "" /\ stream = <<>>

ExtractInit == XInit /\ PRest

FramingInit == FInit /\ PRest

ParseInit == PInit /\ XRest

\* A page whose route is not the current one is not mounted.
PAway ==
    /\ pFileId = "" /\ parser = "" /\ prompt = "" /\ jsonSchema = "" /\ stored = "none"
    /\ pMounted = FALSE
    /\ pLoading = TRUE
    /\ pError = NoError
    /\ pSuccess = FALSE
    /\ pLogs = <<>>
    /\ timeoutId = 0
    /\ pAbortControllerRef = 0
    /\ initTimer = FALSE
    /\ request = "none"
    /\ response = NoResponse
    /\ deadline = FALSE
    /\ budget = 0
    /\ storeRead = FALSE
    /\ pRedirect500 = 0
    /\ pRedirect1000 = 0
    /\ pNavCount = 0
    /\ execCalls = 0
    /\ parseRequests = 0
    /\ storeReads = 0
    /\ hist = <<>>

XAway ==
    /\ fileId = "" /\ stream = <<>> /\ chunkEnds = {}
    /\ mounted = FALSE
    /\ loading = FALSE
    /\ error = ""
    /\ logs = <<>>
    /\ isResetRef = FALSE
    /\ abortControllerRef = 0
    /\ job = IdleJob
    /\ redirect500 = 0
    /\ redirect1000 = 0
    /\ navCount = 0
    /\ startCalls = 0
    /\ extractRequests = 0

PagesInit == (XInit /\ PAway) \/ (PInit /\ XAway)

\* The extraction job's life cycle.
ExtractSpec == ExtractInit /\ [][XNext]_vars

\* The read loop over every stream and every chunking.
FramingSpec == FramingInit /\ [][FNext]_vars

\* The parse job.
ParseSpec == ParseInit /\ [][PNext]_vars

\* The parse job under the scheduling the event loop gives: a pending deadline
\* timer fires, a pending store read settles, and the rejection of an aborted
\* fetch is delivered.  Nothing makes the parse service answer.
ParseLiveSpec ==
    /\ ParseInit
    /\ [][PNext]_vars
    /\ WF_vars(DeadlineFires)
    /\ WF_vars(StoreReadSettles)
    /\ WF_vars(PAbortCatch)

\* Either page with its job, the other page not mounted.
PagesSpec == PagesInit /\ [][XNext \/ PNext]_vars

\* ------------------------------------------------------------------ claims: extraction
\* What the read loop classifies when the whole text arrives as one chunk.
SingleChunk(text) ==
    ProcessChunk(<<>>, text, Acc(<<>>, "", 0, <<>>, FALSE), FALSE).st.events

\* C1: however the stream's text is cut into chunks, a job that reads it to
\* the end has classified the same sequence of Log/Success/Error events as
\* the read loop does on the whole text in one chunk.
C1_ChunkSplitInvariant ==
    job.outcome = "closed" => job.events = SingleChunk(stream)

\* A single log record, cut inside the record, gave exactly one Log event.
C1_Witness ==
    /\ job.outcome = "closed"
    /\ job.cut
    /\ stream = RecLog1 \o <<NL>>
    /\ job.events = <<<<"Log", "1">>>>

\* A record line whose payload fails the delimiter check or JSON.parse.
IsMalformed(line) ==
    /\ StartsWith(line, Prefix)
    /\ LET js == Trim(Slice(line, PrefixLen))
       IN js # <<>> /\ (~DelimitersOk(js) \/ ~JSONparse(js).ok)

RECURSIVE Join(_)
Join(ls) ==
    IF ls = <<>> THEN <<>>
    ELSE IF Len(ls) = 1 THEN ls[1]
    ELSE ls[1] \o <<NL>> \o Join(Tail(ls))

\* The text with its malformed record lines taken out.
WithoutMalformed(text) == Join(SelectSeq(Split(text), LAMBDA l : ~IsMalformed(l)))

\* C2: a job whose channel opened never ends in the failure handler because
\* of a malformed record: it ends only when the channel closes, having read
\* the whole text, and its classified events are those of the same stream
\* without the malformed records.
C2_MalformedNeverAborts ==
    (job.opened /\ job.pc = "done") =>
        /\ job.outcome = "closed"
        /\ job.pos = Len(stream)
        /\ job.events = SingleChunk(WithoutMalformed(stream))

\* A stream with a malformed record next to a well-formed one was read to
\* the end, in chunks that cut a record, and the well-formed one was classified.
C2_Witness ==
    /\ job.outcome = "closed"
    /\ job.cut
    /\ \/ /\ stream = RecUnparseable \o <<NL>> \o RecError \o <<NL>>
          /\ job.events = <<<<"Error", "1">>>>
       \/ /\ stream = RecSuccess \o <<NL>> \o RecBadDelim \o <<NL>>
          /\ job.events = <<<<"Success", "">>>>

\* C3: once a job has been cancelled, a chunk it still receives appends no
\* log entry, sets no error and schedules no success navigation.
C3_NoEffectAfterCancel ==
    [][(job.aborted /\ job'.id = job.id /\ job'.pos # job.pos) =>
           /\ logs' = logs
           /\ error' = error
           /\ redirect500' = redirect500]_vars

\* C9: a call of handleExtract while a job is Starting or Streaming sends no
\* request and leaves the log, the job and the abort handle as they are.
C9_ReentrantStartIsNoOp ==
    [][(startCalls' # startCalls /\ job.pc \in {"fetch", "read"}) =>
           /\ extractRequests' = extractRequests
           /\ logs' = logs
           /\ job' = job
           /\ abortControllerRef' = abortControllerRef
           /\ loading' = loading]_vars

\* handleExtract was called twice and the second call found the first job running.
C9_Witness ==
    /\ startCalls = 2
    /\ extractRequests = 1
    /\ job.pc \in {"fetch", "read"}
    /\ ~job.aborted
    /\ logs # <<>>


\* The kinds of the events a job has classified.
HasEvent(ev, kind) == \E i \in 1..Len(ev) : ev[i][1] = kind
HasTerminal(ev) == HasEvent(ev, "Success") \/ HasEvent(ev, "Error")

\* A success timer runs that the current job did not set: the job was
\* started after a cancelled one (prev is the outcome of the job before it)
\* and has classified no success record, so the timer is the earlier job's.
StaleTimerStep ==
    /\ job.prev = "cancelled"
    /\ ~HasEvent(job.events, "Success")
    /\ (redirect500' < redirect500 \/ redirect1000' < redirect1000)

\* C15: a continuation of an earlier, cancelled job leaves the newer job's
\* log, running flag and abort handle as they are and does not navigate.
C15_StaleContinuationHarmless ==
    [][StaleTimerStep =>
           /\ logs' = logs
           /\ loading' = loading
           /\ abortControllerRef' = abortControllerRef
           /\ navCount' = navCount
           /\ mounted' = mounted]_vars

\* C16: an Error event is the last event a job classifies: nothing of the
\* stream is processed after it.
C16_ErrorStopsConsumption ==
    \A i \in 1..Len(job.events) :
        job.events[i][1] = "Error" => i = Len(job.events)

\* C17: once a job has classified a Success or an Error, the records it
\* reads afterwards append nothing to the log.
C17_LogClosedAfterTerminal ==
    [][(/\ HasTerminal(job.events)
        /\ job'.id = job.id
        /\ job'.pos # job.pos) => logs' = logs]_vars

\* C18: a job whose channel closed has reported a success or a failure,
\* and not both.
C18_ClosedJobHasOutcome ==
    (job.pc = "done" /\ job.outcome = "closed") =>
        /\ HasTerminal(job.events)
        /\ ~(HasEvent(job.events, "Success") /\ HasEvent(job.events, "Error"))

\* C19: when a streaming job that the user cancelled ends Cancelled, its log
\* holds the cancellation entry.
C19_CancelLeavesLogEntry ==
    [][(/\ mounted
        /\ job.opened
        /\ job.outcome # "cancelled"
        /\ job'.outcome = "cancelled") =>
           \E i \in 1..Len(logs') : logs'[i] = Plain("Extraction cancelled by user")]_vars


\* The log and the events of a job that reads the text in one chunk to its end.
StartLogs ==
    <<Plain("PDF2Data Extraction Terminal v1.0.0"),
      Plain("Connecting to extraction service..."),
      Entry(TRUE, "extract", fileId, 0)>>
ReadWhole(text) == ProcessChunk(<<>>, text, Acc(StartLogs, "", 0, <<>>, FALSE), FALSE).st

\* The text up to and with its last newline, and what follows it.
RECURSIVE LastNL(_)
LastNL(text) ==
    IF text = <<>> THEN 0 ELSE IF text[Len(text)] = NL THEN Len(text)
    ELSE LastNL(SubSeq(text, 1, Len(text) - 1))
Terminated(text) == SubSeq(text, 1, LastNL(text))
TailOf(text) == SubSeq(text, LastNL(text) + 1, Len(text))

\* C24: when the channel closes with an unterminated tail, the tail gives no
\* event and no log entry: events and log are those of the text before it.
C24_TailDiscarded ==
    (job.outcome = "closed" /\ TailOf(stream) # <<>>) =>
        /\ job.buffer = TailOf(stream)
        /\ job.events = ReadWhole(Terminated(stream)).events
        /\ logs = ReadWhole(Terminated(stream)).logs
        /\ error = ReadWhole(Terminated(stream)).error

\* The channel closed after a log record and a complete success payload
\* that lacks its newline: one Log event, no success.
C24_Witness ==
    /\ job.outcome = "closed"
    /\ stream = RecLog1 \o <<NL>> \o RecSuccess
    /\ job.events = <<<<"Log", "1">>>>
    /\ redirect500 = 0
    /\ Len(logs) = 4


\* The warning entries of a log.
WarningCount(lg) ==
    Len(SelectSeq(lg, LAMBDA e : e.text = "Warning: Received malformed data"))

\* C25: each record that fails the delimiter check has appended one warning
\* entry: a job that read its stream to the end holds one warning per
\* malformed record (bad delimiters or unparseable payload).
C25_BadDelimitersWarned ==
    job.outcome = "closed" =>
        WarningCount(logs) = Len(SelectSeq(Split(Terminated(stream)), IsMalformed))


\* C26: a record of an unknown type and a well-delimited record that
\* JSON.parse rejects leave the log and the status as a record that fails
\* the delimiter check leaves them.
C26_SkippedRecordsAlike ==
    (/\ job.outcome = "closed"
     /\ stream \in {r \o <<NL>> : r \in {RecBadDelim, RecUnparseable, RecUnknown}}) =>
        /\ Len(logs) = Len(ReadWhole(RecBadDelim \o <<NL>>).logs)
        /\ WarningCount(logs) = WarningCount(ReadWhole(RecBadDelim \o <<NL>>).logs)
        /\ error = ReadWhole(RecBadDelim \o <<NL>>).error
        /\ job.events = <<>>


\* The complete lines of a text, and a text made of complete lines.
CompleteLines(text) == LET parts == Split(text) IN SubSeq(parts, 1, Len(parts) - 1)
RECURSIVE JoinLines(_)
JoinLines(ls) == IF ls = <<>> THEN <<>> ELSE Head(ls) \o <<NL>> \o JoinLines(Tail(ls))

\* The text with its complete lines that do not bear the record prefix taken out.
WithoutUnprefixed(text) ==
    JoinLines(SelectSeq(CompleteLines(text), LAMBDA l : StartsWith(l, Prefix)))

\* C27: a complete line without the record prefix gives no event, no
\* warning and no log entry and leaves the records around it as they are:
\* the job ends as it does on the stream without such lines.
C27_OnlyPrefixedLinesForwarded ==
    job.outcome = "closed" =>
        /\ job.events = ReadWhole(WithoutUnprefixed(stream)).events
        /\ logs = ReadWhole(WithoutUnprefixed(stream)).logs
        /\ error = ReadWhole(WithoutUnprefixed(stream)).error

\* A line of another field, with a payload the classifier would accept,
\* came before a log record: only the record was classified.
C27_Witness ==
    /\ job.outcome = "closed"
    /\ stream = RecField \o <<NL>> \o RecLog2 \o <<NL>>
    /\ job.events = <<<<"Log", "2">>>>
    /\ Len(logs) = 4


IsPrefix(s, t) == Len(s) <= Len(t) /\ SubSeq(t, 1, Len(s)) = s

\* The log entries one line gives, and those of lines in their order.
EntriesOf(line) == ProcessLine(line, Acc(<<>>, "", 0, <<>>, FALSE), FALSE).logs
RECURSIVE EntriesInOrder(_)
EntriesInOrder(ls) ==
    IF ls = <<>> THEN <<>> ELSE EntriesOf(Head(ls)) \o EntriesInOrder(Tail(ls))

\* C28: while a job runs its log is only extended at its end, and the
\* entries of a job that read its stream are those of its records in the
\* order of the records.
C28_LogInObservedOrder ==
    /\ [][(job.pc \in {"fetch", "read"} /\ job'.id = job.id) => IsPrefix(logs, logs')]_vars
    /\ [](job.outcome = "closed" =>
            logs = StartLogs \o EntriesInOrder(CompleteLines(stream)))

\* Two log records, read in chunks that cut a record: the entry of the
\* first stands before the entry of the second.
C28_Witness ==
    /\ job.outcome = "closed"
    /\ job.cut
    /\ stream = RecLog1 \o <<NL>> \o RecLog2 \o <<NL>>
    /\ Len(logs) = 5
    /\ logs[4].arg = "1"
    /\ logs[5].arg = "2"


\* ------------------------------------------------------------------ claims: parsing
Has(tag) == \E i \in 1..Len(hist) : hist[i] = tag

\* The place of the first tag in the job's events, 0 if it never happened.
Pos(tag) ==
    IF Has(tag)
    THEN CHOOSE i \in 1..Len(hist) : hist[i] = tag /\ \A k \in 1..(i - 1) : hist[k] # tag
    ELSE 0

\* The page was left before the event tag.
LeftBefore(tag) == \E i \in 1..Len(hist) : hist[i] \in {"unmount", "leave"} /\ i < Pos(tag)
Left == Has("unmount") \/ Has("leave")

\* Success navigations scheduled so far: pending timers and navigations done.
PRedirectsScheduled == pRedirect500 + pRedirect1000 + pNavCount

\* C4: when the deadline fired with no response and the store read found no
\* structured output, the error message is the timeout one naming the budget
\* in seconds, and stays so.
C4_TimeoutMessageIsFinal ==
    (Has("store_empty") /\ response.kind = "none" /\ ~Has("cancel") /\ ~Left) =>
        /\ pError = TimeoutMessage(parser)
        /\ (parser = "AIParser" => pError.n = 120)

C6_NoReadAfterTimelySuccess ==
    (Has("response_ok") /\ ~(Has("deadline") /\ Pos("deadline") < Pos("response_ok"))) =>
        /\ storeReads = 0
        /\ pSuccess \/ LeftBefore("response_ok")

\* The response came first, the deadline timer fired afterwards and read nothing.
C6_Witness ==
    /\ Has("response_ok")
    /\ Has("deadline_idle")
    /\ Pos("response_ok") < Pos("deadline_idle")
    /\ storeReads = 0
    /\ pSuccess

\* C7: after a non-2xx response before the deadline the error message is the
\* server's message when the body carries one, else the generic message
\* naming the status.
C7_ServerMessageSurfaced ==
    (/\ Has("response_error")
     /\ ~Has("deadline")
     /\ ~Has("cancel")
     /\ ~LeftBefore("response_error")) =>
        pError = ErrorMessageOf(response.status, response.body)

\* C8: the job resolves once: success and an error are never both set and the
\* navigation to the results is scheduled at most once.
C8_ResolvesOnce ==
    /\ ~(pSuccess /\ pError # NoError)
    /\ PRedirectsScheduled <= 1

\* C10: no step sends a parse request while the job's controller is in the
\* ref (a further executeParsing, the deadline, the store read), and a job
\* sends one request at most.
C10_OneParseRequest ==
    [][/\ parseRequests' <= 1
       /\ (pAbortControllerRef # 0 => parseRequests' = parseRequests)]_vars

\* executeParsing was called again while Awaiting and the deadline fired:
\* still one request.
C10_Witness ==
    /\ Has("reentry")
    /\ Has("deadline")
    /\ execCalls = 2
    /\ storeReads = 1
    /\ parseRequests = 1

\* The event the step has just appended to the job's events, "" if none.
Stepped == IF hist' # hist THEN hist'[Len(hist')] ELSE ""

\* C11: the abort signal of the in-flight parse request is triggered only by
\* a user cancel or by teardown, never by the deadline or by the store read
\* that follows it.
C11_AbortOnlyByCancelOrTeardown ==
    [][(request = "inflight" /\ request' = "aborted") =>
           Stepped \in {"cancel", "leave", "unmount"}]_vars

\* The events that end a parse job.
TerminalTags == {"missing", "response_ok", "response_error", "transport_error",
                 "cancel", "abort_catch"}

\* C12: the document store is read at most once per job, and only when the
\* deadline timer fired before every terminal event of the job.
C12_ReconcileOnceOnlyOnDeadline ==
    /\ storeReads <= 1
    /\ storeReads = 1 =>
         /\ Has("deadline")
         /\ \A t \in TerminalTags : Has(t) => Pos("deadline") < Pos(t)

\* The deadline fired first and the store was read once; the response came later.
C12_Witness ==
    /\ storeReads = 1
    /\ Has("response_error")
    /\ Pos("deadline") < Pos("response_error")

\* The user cancelled while the job was Awaiting: before the deadline fired.
CancelledWhileAwaiting ==
    Has("cancel") /\ ~(Has("deadline") /\ Pos("deadline") < Pos("cancel"))

\* C13: a cancel while Awaiting aborts the in-flight request; the job ends
\* with the cancellation message, is never recorded as succeeded, and the
\* deadline timer, when it fires later, reads nothing from the store.
C13_CancelWhileAwaiting ==
    CancelledWhileAwaiting =>
        /\ request \in {"aborted", "settled"}
        /\ request = "settled" => pError = CancelledMessage
        /\ ~pSuccess
        /\ PRedirectsScheduled = 0
        /\ storeReads = 0

\* The job was cancelled while Awaiting and its deadline timer fired afterwards.
C13_Witness ==
    /\ CancelledWhileAwaiting
    /\ Has("deadline_idle")
    /\ Pos("cancel") < Pos("deadline_idle")
    /\ pError = CancelledMessage
    /\ storeReads = 0

\* C14: a cancel action while the job is Reconciling (the store read is
\* outstanding and the parse request still in flight) aborts nothing and
\* records no cancellation.
C14_CancelIgnoredWhileReconciling ==
    [][(storeRead /\ request = "inflight" /\ Stepped \in {"cancel", "leave"}) =>
           /\ request' = request
           /\ pLogs' = pLogs
           /\ pAbortControllerRef' = pAbortControllerRef]_vars

\* C20: executeParsing with the document id or the parser missing ends the
\* job Failed with the missing-parameters message: no parse request, no
\* deadline timer, no read of the store.
C20_MissingParametersNoNetwork ==
    (execCalls > 0 /\ (pFileId = "" \/ parser = "")) =>
        /\ pError = MissingMessage
        /\ ~pLoading
        /\ ~pSuccess
        /\ parseRequests = 0
        /\ ~deadline /\ timeoutId = 0
        /\ storeReads = 0 /\ ~storeRead
        /\ pAbortControllerRef = 0

\* executeParsing ran without a parser and ended with the message.
C20_Witness ==
    /\ Has("missing")
    /\ pFileId = "f1"
    /\ parser = ""
    /\ pError = MissingMessage
    /\ parseRequests = 0

\* The final messages each way of ending a job can leave, for this job's parser.
MissingMessages == {MissingMessage}
TransportMessages == {FailureMessage(Msg("Failed to fetch", 0))}
ServerMessages == {FailureMessage(ErrorMessageOf(st, b)) : st \in Statuses, b \in Bodies}
TimeoutMessages == {TimeoutMessage(parser), TimeoutMessageOnError(parser)}
CancelMessages == {CancelledMessage}

\* The job ran into exactly this event and no other that sets a message.
Only(tag) ==
    /\ Has(tag)
    /\ \A t \in {"missing", "transport_error", "response_error", "store_empty",
                 "store_notok", "store_rejected", "cancel"} \ {tag} : ~Has(t)
    /\ request \in {"none", "settled"}
    /\ ~LeftBefore(tag)

\* C21: the message a failure kind leaves is not a message another kind, or
\* a user cancel, can leave.
C21_FailureKindsDistinct ==
    /\ Only("missing") =>
         pError \notin TransportMessages \cup ServerMessages \cup TimeoutMessages \cup CancelMessages
    /\ Only("transport_error") =>
         pError \notin MissingMessages \cup ServerMessages \cup TimeoutMessages \cup CancelMessages
    /\ Only("response_error") =>
         pError \notin MissingMessages \cup TransportMessages \cup TimeoutMessages \cup CancelMessages
    /\ (Only("store_empty") \/ Only("store_notok") \/ Only("store_rejected")) =>
         pError \notin MissingMessages \cup TransportMessages \cup ServerMessages \cup CancelMessages

\* ------------------------------------------------------------------ claims: both pages
\* C22: when a page is unmounted while its job is running, the step that
\* unmounts it triggers the abort signal of the job's request, whether or
\* not the user ever cancelled.
C22_TeardownAborts ==
    [][/\ (mounted /\ ~mounted' /\ job.pc \in {"fetch", "read"}) => job'.aborted
       /\ (pMounted /\ ~pMounted' /\ request = "inflight") => request' = "aborted"]_vars

\* The parse page was left with its request in flight, without a user
\* cancel, and the request has been aborted.
C22_Witness ==
    /\ ~pMounted
    /\ Has("unmount")
    /\ ~Has("cancel")
    /\ request = "aborted"

\* A step of resetTerminal on a job that a reset has already cancelled and
\* that has run its catch block: no start, no timer, no unmount.
ResetAgainStep ==
    /\ isResetRef /\ job.aborted /\ job.pc = "done"
    /\ mounted /\ mounted'
    /\ startCalls' = startCalls
    /\ redirect500' = redirect500
    /\ redirect1000' = redirect1000
    /\ navCount' = navCount

\* A cancel action (handleCancel, cleanup) on a parse job that a user cancel
\* has already ended.
CancelAgainStep ==
    /\ Has("cancel")
    /\ request = "settled"
    /\ Stepped \in {"cancel", "leave", "unmount"}

\* C23: a second cancel changes nothing of the cancelled job: its status,
\* its log and its abort handle stay as the first cancel left them.
C23_CancelIdempotent ==
    [][/\ ResetAgainStep =>
            /\ logs' = logs /\ logs' = <<>>
            /\ error' = ""
            /\ loading' = loading
            /\ abortControllerRef' = abortControllerRef
            /\ job' = job
            /\ isResetRef'
       /\ CancelAgainStep =>
            /\ pLogs' = pLogs
            /\ pError' = pError
            /\ pSuccess' = pSuccess
            /\ pLoading' = pLoading
            /\ pAbortControllerRef' = pAbortControllerRef
            /\ request' = request]_vars

\* handleCancel was invoked a second time on a cancelled parse job.
C23_Witness ==
    /\ Has("cancel")
    /\ Has("leave")
    /\ Pos("cancel") < Pos("leave")
    /\ pError = CancelledMessage
    /\ pAbortControllerRef = 0

\* C29: the cancelled message and the 'cancelled by user' log entry appear
\* only on a job the user cancelled.
C29_CancelledOnlyByUser ==
    (\/ pError = CancelledMessage
     \/ \E i \in 1..Len(pLogs) : pLogs[i] = Plain("Parsing cancelled by user")) =>
        Has("cancel")

TimeoutTexts == {TimeoutMessage(parser).t, TimeoutMessageOnError(parser).t}

\* C30: the delay of the deadline timer is the parser's budget, the budget
\* the timeout log line and the timeout message name is the same value, and
\* the budget of AIParser exceeds that of every other parser.
C30_BudgetFixedAtStart ==
    /\ budget # 0 => budget = TimeoutDuration(parser)
    /\ \A i \in 1..Len(pLogs) :
         pLogs[i].text = "Parser took longer than %d seconds" => pLogs[i].n * 1000 = budget
    /\ pError.t \in TimeoutTexts => pError.n * 1000 = budget
    /\ \A p \in Parsers \ {"AIParser"} : TimeoutDuration("AIParser") > TimeoutDuration(p)

\* An AIParser job ran past its deadline and its timeout message names 120 seconds.
C30_Witness ==
    /\ parser = "AIParser"
    /\ Has("store_empty")
    /\ budget = 120000
    /\ pError = TimeoutMessage(parser)
    /\ pError.n = 120

\* ------------------------------------------------------------------ claims: completion
\* C31: on a success record the closing lines are appended first, the
\* navigation to the parse page fires afterwards, and a job navigates at most
\* once even when its stream carries more than one success record: the
\* navigations never outnumber the jobs started.
C31_CompletionSignalledOncePerJob ==
    navCount <= job.id

\* ------------------------------------------------------------------ claims: reconciliation
ReadAnswered2xx == Stepped \in {"store_tables", "store_empty"}

SucceededByRead ==
    /\ pMounted => pSuccess' /\ ~pLoading'
    /\ pRedirect500' = pRedirect500 + 1
    /\ pError' = pError

\* C32: reconciliation decides by the presence of stored output alone.  A
\* 2xx read of the store finds tables exactly when the store holds output,
\* and with output left by an earlier parse, the current one having stored
\* nothing, the job resolves Succeeded: success is set, the running flag is
\* dropped, the redirect is scheduled and no error is set.
C32_ReconciledByPresenceAlone ==
    [][ReadAnswered2xx =>
         ( /\ (Stepped = "store_tables") <=> (stored # "none")
           /\ (stored = "earlier") => SucceededByRead )]_vars

C32_Witness ==
    /\ Has("store_tables")
    /\ stored = "earlier"
    /\ ~Has("response_ok")
    /\ pSuccess
    /\ ~pLoading

\* C33: every started parse job leaves the running state, whether or not the
\* parse response ever arrives: once the deadline timer has fired and the
\* store read has settled, the job has succeeded or carries an error (unless
\* the page was left meanwhile).
C33_StartedJobResolves ==
    Has("start") ~> (pSuccess \/ pError # NoError \/ ~pMounted)

\* A job without any answer from the parse service, resolved by its deadline.
C33_Witness ==
    /\ Has("start")
    /\ response = NoResponse
    /\ Has("deadline")
    /\ pMounted
    /\ ~pLoading
    /\ pSuccess \/ pError # NoError

\* The job failed by the answer of the parse service, or by the transport,
\* before its deadline timer fired.
FailedEarly ==
    \E i \in 1..Len(hist) :
        /\ hist[i] \in {"response_error", "transport_error"}
        /\ \A j \in 1..(i - 1) : hist[j] # "deadline"

\* The deadline timer fires.
DeadlineStep == deadline /\ ~deadline'

\* C34: after a parse job failed before its deadline, the deadline timer,
\* still pending, fires without effect: no store read is issued, nothing but
\* the timer changes, and the failed job never becomes a succeeded one.
C34_FailedJobNotReclassified ==
    /\ [](FailedEarly => ~pSuccess /\ ~storeRead /\ storeReads = 0 /\ pRedirect500 = 0)
    /\ [][FailedEarly /\ DeadlineStep =>
             /\ Stepped = "deadline_idle"
             /\ UNCHANGED <<pFileId, parser, prompt, jsonSchema, stored, budget, pMounted,
                            pLoading, pError, pSuccess, pLogs, timeoutId,
                            pAbortControllerRef, initTimer, request, response, storeRead,
                            pRedirect500, pRedirect1000, pNavCount, execCalls,
                            parseRequests, storeReads>>]_vars

C34_Witness ==
    /\ FailedEarly
    /\ Has("deadline_idle")
    /\ pError # NoError
    /\ ~pSuccess

\* ------------------------------------------------------------------ claims: reset
\* resetTerminal was invoked on a job that had run to the close of its channel
\* with a success record, and no job has been started since.
ResetAfterSuccess ==
    /\ isResetRef
    /\ job.outcome = "closed"
    /\ HasEvent(job.events, "Success")

\* C35: after resetTerminal on a job that already received its success
\* record, no navigation to the parse page occurs: no pending timer of the
\* job still acts.
C35_NoNavigationAfterReset ==
    [][ResetAfterSuccess => navCount' = navCount]_vars

\* C36: between resetTerminal and the next handleExtract the log stays empty
\* and the error stays cleared, whatever continuation of the cancelled job
\* still runs.
C36_ResetStateKept ==
    isResetRef => logs = <<>> /\ error = ""

\* ------------------------------------------------------------------ claims: start delay
\* The page was torn down before its start delay elapsed: the teardown is the
\* first event of the page.
TornDownBeforeStart ==
    /\ hist # <<>>
    /\ hist[1] \in {"unmount", "leave"}

\* C37: if the parse page is torn down before its start delay elapses,
\* executeParsing never runs: no parse request is sent, no deadline timer is
\* started and no store read is issued, then or later.
C37_NoStartAfterTeardown ==
    TornDownBeforeStart =>
        /\ ~initTimer
        /\ execCalls = 0
        /\ parseRequests = 0 /\ request = "none"
        /\ ~deadline /\ budget = 0
        /\ storeReads = 0 /\ ~storeRead
        /\ Len(hist) = 1

C37_Witness ==
    /\ TornDownBeforeStart
    /\ ~pMounted
    /\ ~initTimer
    /\ execCalls = 0

\* ------------------------------------------------------------------ claims: refused request
\* The two lines the outer catch appends for a failure that is not an abort.
ConnectionFailureLines ==
    <<Plain("ERROR: Connection to extraction service failed"),
      Plain("Process terminated with exit code 1")>>

\* The fetch of the job settles with a non-2xx answer.
RefusedStep == job.answer = "none" /\ job'.answer = "notok"

\* C38: a job whose request is answered non-2xx never streams: no record is
\* read or classified, the job ends failed, the two connection-failure lines
\* are appended and the error is set, and the running flag and the abort
\* handle are released.
C38_RefusedRequestFails ==
    /\ [](job.answer = "notok" =>
            /\ job.pc = "done" /\ job.outcome = "failed"
            /\ ~job.opened /\ job.pos = 0 /\ job.events = <<>>
            /\ ~loading
            /\ abortControllerRef = 0)
    /\ [][RefusedStep =>
            /\ logs' = logs \o ConnectionFailureLines
            /\ error' = ExtractionFailed
            /\ redirect500' = redirect500]_vars

C38_Witness ==
    /\ job.answer = "notok"
    /\ job.outcome = "failed"
    /\ error = ExtractionFailed
    /\ Len(logs) = 5

====
